---- MODULE Spec2Model ----
\* Model of weblate/accounts/models.py: the notification pipeline
\* (send_notification_email and the notify methods of Profile), the
\* subscription queries of ProfileManager and the profile get-or-create of
\* the login and registration signal handlers.
EXTENDS Integers, Sequences, FiniteSets, TLC

(***************************************************************************)
(* Bounds                                                                  *)
(***************************************************************************)
\* number of top-level notification calls made one after the other
MaxCalls == 2
\* number of profile edits (flag set, project subscribed, language tracked)
MaxEdits == 3
\* number of signal-handler invocations (logins and registrations)
MaxInvocations == 3

(***************************************************************************)
(* Dictionaries (Python dict): functions from a finite set of keys         *)
(***************************************************************************)
EmptyDict == [k \in {} |-> <<>>]

Put(d, k, v) == [x \in (DOMAIN d) \cup {k} |-> IF x = k THEN v ELSE d[x]]

(***************************************************************************)
(* Collaborators that the module only calls                                *)
(***************************************************************************)
\* settings.LANGUAGE_CODE, what get_language() answers when nothing is active
LANGUAGE_CODE == "en"

Unset == "(none)"

Locales == {"en", "cs", "de"}

\* translation.get_language()
get_language(loc) == IF loc = Unset THEN LANGUAGE_CODE ELSE loc

\* translation.activate(language)
activate(loc, language) == language

\* Site.objects.get_current().domain
SiteDomain == "example.org"

\* settings.EMAIL_SUBJECT_PREFIX
EMAIL_SUBJECT_PREFIX == "[Weblate] "

\* 'Weblate %s' % weblate.VERSION
XMailer == <<"Weblate ", "VERSION">>

\* subject entities: translations and a subproject
Translations == {"t1", "t2"}

Subprojects == {"sp1"}

Entities == Translations \cup Subprojects

subproject(t) == "sp1"

get_absolute_url(e) == <<"/projects/", e, "/">>

\* units of a translation, with their translated flag
Units == { [id |-> "unit1", translation |-> "t1", translated |-> TRUE],
           [id |-> "unit2", translation |-> "t2", translated |-> FALSE] }

\* the profiles that get notified: interface language and e-mail of the user
NotifyProfiles == { [user |-> "alice", language |-> "cs", email |-> "alice@example.org"],
                    [user |-> "bob", language |-> "de", email |-> "bob@example.org"] }

VARIABLES
    locale,       \* the thread's active translation (Unset before any activate)
    pc,           \* position inside send_notification_email, "idle" outside
    frame,        \* arguments and locals of the running send_notification_email
    heap,         \* the dict objects: notify_user's two default arguments and
                  \* the context / headers objects made for the running call
    events,       \* what the running (or last) top-level call did, in order
    gate,         \* answer of has_acl in the last notify call
    outcome,      \* how the last top-level call ended
    calls,        \* number of top-level calls started
    entryLocale,  \* get_language() just before the running (or last) call
    initLocale,   \* get_language() in the initial state
    supplied,     \* context and headers the caller of the call supplied
    profiles,     \* the Profile rows the subscription queries run on, by user
    edits,        \* number of edits made to the profiles
    query,        \* the last subscription query made, with its result
    rows,         \* the Profile table as the signal handlers see it
    nextId,       \* next primary key of the Profile table
    userdb,       \* first_name / last_name saved for each user
    handler,      \* the running signal handlers, one per request thread
    session,      \* django_language stored in each thread's session
    invocations   \* number of signal-handler invocations started

nvars == <<locale, pc, frame, heap, events, gate, outcome, calls,
           entryLocale, initLocale, supplied>>

mvars == <<profiles, edits, query>>

lvars == <<rows, nextId, userdb, handler, session, invocations>>

vars == <<nvars, mvars, lvars>>

NoFrame == [language |-> "", email |-> "", notification |-> "",
            translation_obj |-> "", ctx |-> "none", hdr |-> "none",
            from_email |-> "", cur_language |-> "", domain |-> "",
            subject |-> <<>>, body |-> <<>>, html_body |-> <<>>, exc |-> ""]

NoSupplied == [context |-> EmptyDict, headers |-> EmptyDict]

\* the state of the notification part before any call, given the locale
\* that the request has active
NotifyStart(loc) ==
    /\ locale = loc
    /\ pc = "idle"
    /\ frame = NoFrame
    /\ heap = [defctx |-> EmptyDict, defhdr |-> EmptyDict,
               ctx |-> EmptyDict, hdr |-> EmptyDict]
    /\ events = <<>>
    /\ gate = "none"
    /\ outcome = [status |-> "none", error |-> ""]
    /\ calls = 0
    /\ entryLocale = get_language(locale)
    /\ initLocale = get_language(locale)
    /\ supplied = NoSupplied

(***************************************************************************)
(* Pure helpers of send_notification_email                                 *)
(***************************************************************************)
\* the three template names, lines 65-67
subject_template(notification) == <<"mail/", notification, "_subject.txt">>

body_template(notification) == <<"mail/", notification, ".txt">>

html_body_template(notification) == <<"mail/", notification, ".html">>

\* render_to_string(template, context) under the active locale: the text of
\* the template in that locale, ending in a newline
render_to_string(template, context, loc) ==
    <<get_language(loc)>> \o template \o <<"\n">>

\* str.strip(): drops leading and trailing whitespace
RECURSIVE strip(_)
strip(s) ==
    IF s = <<>> THEN s
    ELSE IF Head(s) = "\n" THEN strip(Tail(s))
    ELSE IF s[Len(s)] = "\n" THEN strip(SubSeq(s, 1, Len(s) - 1))
    ELSE s

\* lines 71-72 written with setdefault: an entry already in the dict stays
AdjustContextHeadKeep(context, translation_obj, domain) ==
    LET c1 == IF "translation" \in DOMAIN context THEN context
              ELSE Put(context, "translation", translation_obj)
    IN  IF "current_site" \in DOMAIN c1 THEN c1 ELSE Put(c1, "current_site", domain)

\* lines 71-72: the two context entries written before get_absolute_url runs
AdjustContextHead(context, translation_obj, domain) ==
    Put(Put(context, "translation", translation_obj), "current_site", domain)

\* lines 71-74: the four context entries
AdjustContext(context, translation_obj, domain, notification) ==
    Put(Put(AdjustContextHead(context, translation_obj, domain),
            "translation_url", <<"http://", domain>> \o get_absolute_url(translation_obj)),
        "subject_template", subject_template(notification))

\* lines 84-87: the four fixed headers
DefineHeaders(headers) ==
    Put(Put(Put(Put(headers, "Auto-Submitted", "auto-generated"),
                "X-AutoGenerated", "yes"),
            "Precedence", "bulk"),
        "X-Mailer", XMailer)

\* lines 91-95: django.core.mail.mail_admins(subject, message, html_message=...)
\* builds its own message for settings.ADMINS; it takes no headers argument
mail_admins(subject, message, html_message) ==
    [route |-> "admins", to |-> <<"settings.ADMINS">>,
     subject |-> <<EMAIL_SUBJECT_PREFIX>> \o subject, body |-> message,
     alternatives |-> IF html_message = <<>> THEN <<>> ELSE <<html_message>>,
     headers |-> EmptyDict, from_email |-> "settings.SERVER_EMAIL"]

\* lines 98-108: EmailMultiAlternatives(...) and attach_alternative(...)
EmailMultiAlternatives(subject, body, to, headers, from_email, html_body) ==
    [route |-> "direct", to |-> to, subject |-> subject, body |-> body,
     alternatives |-> <<html_body>>, headers |-> headers,
     from_email |-> from_email]

\* the routing test of line 89 lost: "ADMINS" is used as an address
MessageAlwaysDirect(f, headers) ==
    EmailMultiAlternatives(<<EMAIL_SUBJECT_PREFIX>> \o strip(f.subject),
                           f.body, <<f.email>>, headers, f.from_email,
                           f.html_body)

\* lines 89-108: the message handed to the transport
Message(f, headers) ==
    IF f.email = "ADMINS"
    THEN mail_admins(strip(f.subject), f.body, f.html_body)
    ELSE EmailMultiAlternatives(<<EMAIL_SUBJECT_PREFIX>> \o strip(f.subject),
                                f.body, <<f.email>>, headers, f.from_email,
                                f.html_body)

(***************************************************************************)
(* Arguments that may be left out                                          *)
(***************************************************************************)
\* an argument left to its default
Omitted == [given |-> FALSE, value |-> EmptyDict]

\* an argument the caller passes
Given(d) == [given |-> TRUE, value |-> d]

(***************************************************************************)
(* send_notification_email, lines 49-113                                   *)
(***************************************************************************)
\* lines 49-57: entry.  ctxref / hdrref name the dict object that the
\* parameter is bound to: a default-argument object of notify_user
\* ("defctx", "defhdr") or the object made for this call ("ctx", "hdr"),
\* which is the caller's dict or the {} of lines 55 and 57.
send_notification_email(language, email, notification, translation_obj, ctxref, context, hdrref, headers, from_email) ==
    /\ frame' = [NoFrame EXCEPT !.language = language, !.email = email,
                                !.notification = notification,
                                !.translation_obj = translation_obj,
                                !.ctx = ctxref, !.hdr = hdrref,
                                !.from_email = from_email,
                                !.cur_language = get_language(locale)]
    /\ heap' = [heap EXCEPT !.ctx = context, !.hdr = headers]
    /\ pc' = "log"
    /\ outcome' = [status |-> "running", error |-> ""]
    /\ UNCHANGED locale

\* an error leaves the try block: control goes to the finally clause
Raise(step) ==
    /\ frame' = [frame EXCEPT !.exc = step]
    /\ pc' = "finally"

\* line 59: logger.info(...), evaluates translation_obj.__unicode__()
Log ==
    /\ pc = "log"
    /\ \E ok \in BOOLEAN :
         IF ok
         THEN /\ events' = Append(events, [op |-> "log",
                                           notification |-> frame.notification,
                                           obj |-> frame.translation_obj,
                                           email |-> frame.email])
              /\ pc' = "activate"
              /\ UNCHANGED frame
         ELSE Raise("log") /\ UNCHANGED events
    /\ UNCHANGED <<locale, heap, gate, outcome, calls, entryLocale, initLocale, supplied, mvars, lvars>>

\* line 62: translation.activate(language)
Activate ==
    /\ pc = "activate"
    /\ locale' = activate(locale, frame.language)
    /\ events' = Append(events, [op |-> "activate", language |-> frame.language])
    /\ pc' = "domain"
    /\ UNCHANGED <<frame, heap, gate, outcome, calls, entryLocale, initLocale, supplied, mvars, lvars>>

\* line 70: domain = Site.objects.get_current().domain
Domain ==
    /\ pc = "domain"
    /\ \E ok \in BOOLEAN :
         IF ok
         THEN /\ frame' = [frame EXCEPT !.domain = SiteDomain]
              /\ pc' = "context"
         ELSE Raise("domain")
    /\ UNCHANGED <<locale, heap, events, gate, outcome, calls, entryLocale, initLocale, supplied, mvars, lvars>>

\* lines 71-74: the context entries; get_absolute_url() of line 73 may fail
\* after lines 71-72 have written
Context ==
    /\ pc = "context"
    /\ \E ok \in BOOLEAN :
         IF ok
         THEN /\ heap' = [heap EXCEPT ![frame.ctx] =
                            AdjustContext(@, frame.translation_obj, frame.domain,
                                          frame.notification)]
              /\ pc' = "render_subject"
              /\ UNCHANGED frame
         ELSE /\ heap' = [heap EXCEPT ![frame.ctx] =
                            AdjustContextHead(@, frame.translation_obj, frame.domain)]
              /\ Raise("get_absolute_url")
    /\ UNCHANGED <<locale, events, gate, outcome, calls, entryLocale, initLocale, supplied, mvars, lvars>>

\* one render_to_string call of lines 77-81
RenderStep(here, field, template, next) ==
    /\ pc = here
    /\ \E ok \in BOOLEAN :
         IF ok
         THEN /\ frame' = [frame EXCEPT ![field] =
                             render_to_string(template, heap[frame.ctx], locale)]
              /\ events' = Append(events, [op |-> "render", template |-> template,
                                           context |-> heap[frame.ctx],
                                           locale |-> get_language(locale)])
              /\ pc' = next
         ELSE Raise(here) /\ UNCHANGED events
    /\ UNCHANGED <<locale, heap, gate, outcome, calls, entryLocale, initLocale, supplied, mvars, lvars>>

\* line 77
RenderSubject ==
    RenderStep("render_subject", "subject",
               subject_template(frame.notification), "render_body")

\* line 80
RenderBody ==
    RenderStep("render_body", "body",
               body_template(frame.notification), "render_html")

\* line 81
RenderHtml ==
    RenderStep("render_html", "html_body",
               html_body_template(frame.notification), "headers")

\* lines 84-87
Headers ==
    /\ pc = "headers"
    /\ heap' = [heap EXCEPT ![frame.hdr] = DefineHeaders(@)]
    /\ pc' = "send"
    /\ UNCHANGED <<locale, frame, events, gate, outcome, calls, entryLocale, initLocale, supplied, mvars, lvars>>

\* a send that is tried a second time after a transport failure
SendWithRetry ==
    /\ pc = "send"
    /\ \E ok \in BOOLEAN :
         LET attempt(r) == [op |-> "send",
                            message |-> Message(frame, heap[frame.hdr]),
                            ok |-> r]
         IN  IF ok
             THEN /\ events' = Append(events, attempt(TRUE))
                  /\ pc' = "finally"
                  /\ UNCHANGED frame
             ELSE /\ events' = Append(Append(events, attempt(FALSE)), attempt(FALSE))
                  /\ Raise("send")
    /\ UNCHANGED <<locale, heap, gate, outcome, calls, entryLocale, initLocale, supplied, mvars, lvars>>

\* lines 89-111: one hand-over to the transport, which may fail
\* (mail_admins and send(fail_silently=False) both raise on failure)
Send ==
    /\ pc = "send"
    /\ \E ok \in BOOLEAN :
         /\ events' = Append(events, [op |-> "send",
                                      message |-> Message(frame, heap[frame.hdr]),
                                      ok |-> ok])
         /\ IF ok THEN pc' = "finally" /\ UNCHANGED frame ELSE Raise("send")
    /\ UNCHANGED <<locale, heap, gate, outcome, calls, entryLocale, initLocale, supplied, mvars, lvars>>

\* the restore placed after the try block instead of in a finally clause: an
\* error leaves the function before it
FinallyOnlyOnSuccess ==
    /\ pc = "finally"
    /\ locale' = IF frame.exc = "" THEN activate(locale, frame.cur_language)
                  ELSE locale
    /\ outcome' = IF frame.exc = "" THEN [status |-> "returned", error |-> ""]
                  ELSE [status |-> "raised", error |-> frame.exc]
    /\ pc' = "idle"
    /\ UNCHANGED <<frame, heap, events, gate, calls, entryLocale, initLocale, supplied, mvars, lvars>>

\* lines 112-113: finally: translation.activate(cur_language); the call ends,
\* with the pending error, if any, delivered to the caller
Finally ==
    /\ pc = "finally"
    /\ locale' = activate(locale, frame.cur_language)
    /\ outcome' = IF frame.exc = "" THEN [status |-> "returned", error |-> ""]
                  ELSE [status |-> "raised", error |-> frame.exc]
    /\ pc' = "idle"
    /\ UNCHANGED <<frame, heap, events, gate, calls, entryLocale, initLocale, supplied, mvars, lvars>>

(***************************************************************************)
(* Profile.notify_user and the six notify methods, lines 209-303           *)
(***************************************************************************)
\* start of a top-level call made by the surrounding application
TopCall ==
    /\ pc = "idle"
    /\ calls < MaxCalls
    /\ calls' = calls + 1
    /\ events' = <<>>
    /\ entryLocale' = get_language(locale)
    /\ UNCHANGED <<initLocale, mvars, lvars>>

\* notify_user without the check of lines 214-215
notify_user_ungated(self, notification, translation_obj, context, headers, acl) ==
    /\ supplied' = [context |-> context.value, headers |-> headers.value]
    /\ gate' = IF acl THEN "passed" ELSE "denied"
    /\ send_notification_email(
           self.language, self.email, notification, translation_obj,
           IF context.given THEN "ctx" ELSE "defctx", context.value,
           IF headers.given THEN "hdr" ELSE "defhdr", headers.value,
           "None")

\* lines 209-224.  acl is the answer of translation_obj.has_acl(self).  A
\* parameter left out is bound to the default-argument object of the method,
\* which is one object for all calls.
notify_user(self, notification, translation_obj, context, headers, acl) ==
    /\ supplied' = [context |-> context.value, headers |-> headers.value]
    /\ IF ~acl
       THEN /\ gate' = "denied"
            /\ outcome' = [status |-> "returned", error |-> ""]
            /\ frame' = NoFrame
            /\ UNCHANGED <<locale, pc, heap>>
       ELSE /\ gate' = "passed"
            /\ send_notification_email(
                   self.language, self.email, notification, translation_obj,
                   IF context.given THEN "ctx" ELSE "defctx", context.value,
                   IF headers.given THEN "hdr" ELSE "defhdr", headers.value,
                   "None")

\* lines 226-241
notify_any_translation(self, unit, oldunit, acl) ==
    /\ TopCall
    /\ notify_user(self,
                   IF oldunit.translated THEN "changed_translation"
                                         ELSE "new_translation",
                   unit.translation,
                   Given(Put(Put(EmptyDict, "unit", unit.id), "oldunit", oldunit.id)),
                   Omitted, acl)

\* lines 243-250
notify_new_string(self, translation, acl) ==
    /\ TopCall
    /\ notify_user(self, "new_string", translation, Omitted, Omitted, acl)

\* lines 252-263
notify_new_suggestion(self, translation, suggestion, unit, acl) ==
    /\ TopCall
    /\ notify_user(self, "new_suggestion", translation,
                   Given(Put(Put(EmptyDict, "suggestion", suggestion), "unit", unit.id)),
                   Omitted, acl)

\* lines 265-275
notify_new_contributor(self, translation, user, acl) ==
    /\ TopCall
    /\ notify_user(self, "new_contributor", translation,
                   Given(Put(EmptyDict, "user", user)), Omitted, acl)

\* lines 277-289
notify_new_comment(self, unit, comment, acl) ==
    /\ TopCall
    /\ notify_user(self, "new_comment", unit.translation,
                   Given(Put(Put(Put(EmptyDict, "unit", unit.id), "comment", comment),
                             "subproject", subproject(unit.translation))),
                   Omitted, acl)

\* lines 291-303
notify_merge_failure(self, subproj, error, status, acl) ==
    /\ TopCall
    /\ notify_user(self, "merge_failure", subproj,
                   Given(Put(Put(Put(EmptyDict, "subproject", subproj), "error", error),
                             "status", status)),
                   Omitted, acl)

\* notify_user called by other code, with its own context and headers
CallerContexts == { Omitted, Given(Put(EmptyDict, "extra", "x")) }

CallerHeaders == { Omitted, Given(Put(EmptyDict, "X-Mailer", "custom")),
                   Given(Put(EmptyDict, "X-Custom", "1")) }

notify_user_call(self, translation_obj, context, headers, acl) ==
    /\ TopCall
    /\ notify_user(self, "new_string", translation_obj, context, headers, acl)

\* send_notification_email called by other code (no access gate), also with
\* the "ADMINS" recipient; context=None / headers=None become a new {} each
send_notification_email_call(language, email, translation_obj, context, headers) ==
    /\ TopCall
    /\ supplied' = [context |-> context.value, headers |-> headers.value]
    /\ gate' = "none"
    /\ send_notification_email(language, email, "merge_failure", translation_obj,
                               "ctx", context.value, "hdr", headers.value,
                               "noreply@example.org")

NextNotify ==
    \/ \E self \in NotifyProfiles, unit \in Units, oldunit \in Units, acl \in BOOLEAN :
         notify_any_translation(self, unit, oldunit, acl)
    \/ \E self \in NotifyProfiles, t \in Translations, acl \in BOOLEAN :
         notify_new_string(self, t, acl)
    \/ \E self \in NotifyProfiles, unit \in Units, acl \in BOOLEAN :
         notify_new_suggestion(self, unit.translation, "sugg1", unit, acl)
    \/ \E self \in NotifyProfiles, t \in Translations, acl \in BOOLEAN :
         notify_new_contributor(self, t, "carol", acl)
    \/ \E self \in NotifyProfiles, unit \in Units, acl \in BOOLEAN :
         notify_new_comment(self, unit, "comment1", acl)
    \/ \E self \in NotifyProfiles, sp \in Subprojects, acl \in BOOLEAN :
         notify_merge_failure(self, sp, "error1", "status1", acl)
    \/ \E self \in NotifyProfiles, t \in Translations, context \in CallerContexts,
          headers \in CallerHeaders, acl \in BOOLEAN :
         notify_user_call(self, t, context, headers, acl)
    \/ \E email \in {"ADMINS", "dave@example.org"}, sp \in Subprojects,
          context \in CallerContexts, headers \in CallerHeaders :
         send_notification_email_call("cs", email, sp, context, headers)
    \/ Log
    \/ Activate
    \/ Domain
    \/ Context
    \/ RenderSubject
    \/ RenderBody
    \/ RenderHtml
    \/ Headers
    \/ Send
    \/ Finally

(***************************************************************************)
(* ProfileManager, lines 116-144, on the Profile fields of lines 151-199   *)
(***************************************************************************)
\* users that own a profile
ProfileUsers == {"alice", "bob"}

AnonymousUser == "AnonymousUser"

Projects == {"p1", "p2"}

Languages == {"cs", "de"}

\* language=None: a comment on a source string
None == "None"

\* the six opt-in flags, lines 176-199
Flags == {"subscribe_any_translation", "subscribe_new_string",
          "subscribe_new_suggestion", "subscribe_new_contributor",
          "subscribe_new_comment", "subscribe_merge_failure"}

\* a new Profile row: every flag default=False, no project, no language
NewProfile == [subscribe_any_translation |-> FALSE, subscribe_new_string |-> FALSE,
               subscribe_new_suggestion |-> FALSE, subscribe_new_contributor |-> FALSE,
               subscribe_new_comment |-> FALSE, subscribe_merge_failure |-> FALSE,
               subscriptions |-> {}, languages |-> {}]

NoQuery == [name |-> "none", project |-> "", language |-> "", user |-> "",
            result |-> {}]

InitMatcher ==
    /\ profiles = [u \in ProfileUsers |-> NewProfile]
    /\ edits = 0
    /\ query = NoQuery

\* user.is_authenticated()
is_authenticated(user) == user # AnonymousUser

\* Profile.objects: every profile, named by its owning user
objects == ProfileUsers

\* the flag condition left out of the filter
filter_flag_any(qs, flag) == qs

\* .filter(<flag>=True)
filter_flag(qs, flag) == {u \in qs : profiles[u][flag]}

\* .filter(subscriptions=project)
filter_subscriptions(qs, project) == {u \in qs : project \in profiles[u].subscriptions}

\* .filter(languages=language)
filter_languages(qs, language) == {u \in qs : language \in profiles[u].languages}

\* the exclusion left out
exclude_user_nobody(qs, user) == qs

\* .exclude(user=user)
exclude_user(qs, user) == {u \in qs : u # user}

\* lines 120-121
subscribed_any_translation(project, language, user) ==
    exclude_user(
        filter_languages(
            filter_subscriptions(filter_flag(objects, "subscribe_any_translation"),
                                 project),
            language),
        user)

\* lines 123-124
subscribed_new_string(project, language) ==
    filter_languages(
        filter_subscriptions(filter_flag(objects, "subscribe_new_string"), project),
        language)

\* lines 126-131
subscribed_new_suggestion(project, language, user) ==
    LET ret == filter_languages(
                   filter_subscriptions(filter_flag(objects, "subscribe_new_suggestion"),
                                        project),
                   language)
    IN  IF is_authenticated(user) THEN exclude_user(ret, user) ELSE ret

\* lines 133-134
subscribed_new_contributor(project, language, user) ==
    exclude_user(
        filter_languages(
            filter_subscriptions(filter_flag(objects, "subscribe_new_contributor"),
                                 project),
            language),
        user)

\* the language filter applied whatever the language, None included
subscribed_new_comment_always_filtered(project, language, user) ==
    filter_languages(
        exclude_user(
            filter_subscriptions(filter_flag(objects, "subscribe_new_comment"),
                                 project),
            user),
        language)

\* lines 136-141
subscribed_new_comment(project, language, user) ==
    LET ret == exclude_user(
                   filter_subscriptions(filter_flag(objects, "subscribe_new_comment"),
                                        project),
                   user)
    IN  IF language # None THEN filter_languages(ret, language) ELSE ret

\* lines 143-144
subscribed_merge_failure(project) ==
    filter_subscriptions(filter_flag(objects, "subscribe_merge_failure"), project)

\* Edits of a profile; a result obtained earlier is dropped (nothing is cached).
\* the user sets one opt-in flag (lines 176-199)
SetFlag(u, flag) ==
    /\ edits < MaxEdits
    /\ ~profiles[u][flag]
    /\ profiles' = [profiles EXCEPT ![u][flag] = TRUE]
    /\ edits' = edits + 1
    /\ query' = NoQuery
    /\ UNCHANGED <<nvars, lvars>>

\* the user subscribes to a project (lines 171-174)
Subscribe(u, project) ==
    /\ edits < MaxEdits
    /\ project \notin profiles[u].subscriptions
    /\ profiles' = [profiles EXCEPT ![u].subscriptions = @ \cup {project}]
    /\ edits' = edits + 1
    /\ query' = NoQuery
    /\ UNCHANGED <<nvars, lvars>>

\* the user adds a language (lines 157-161)
TrackLanguage(u, language) ==
    /\ edits < MaxEdits
    /\ language \notin profiles[u].languages
    /\ profiles' = [profiles EXCEPT ![u].languages = @ \cup {language}]
    /\ edits' = edits + 1
    /\ query' = NoQuery
    /\ UNCHANGED <<nvars, lvars>>

\* a query is made and its result kept
Answer(name, project, language, user, result) ==
    /\ query' = [name |-> name, project |-> project, language |-> language,
                 user |-> user, result |-> result]
    /\ UNCHANGED <<profiles, edits, nvars, lvars>>

QueryAnyTranslation(project, language, user) ==
    Answer("subscribed_any_translation", project, language, user,
           subscribed_any_translation(project, language, user))

QueryNewString(project, language) ==
    Answer("subscribed_new_string", project, language, "",
           subscribed_new_string(project, language))

QueryNewSuggestion(project, language, user) ==
    Answer("subscribed_new_suggestion", project, language, user,
           subscribed_new_suggestion(project, language, user))

QueryNewContributor(project, language, user) ==
    Answer("subscribed_new_contributor", project, language, user,
           subscribed_new_contributor(project, language, user))

QueryNewComment(project, language, user) ==
    Answer("subscribed_new_comment", project, language, user,
           subscribed_new_comment(project, language, user))

QueryMergeFailure(project) ==
    Answer("subscribed_merge_failure", project, "", "",
           subscribed_merge_failure(project))

NextMatcher ==
    \/ \E u \in ProfileUsers, flag \in Flags : SetFlag(u, flag)
    \/ \E u \in ProfileUsers, project \in Projects : Subscribe(u, project)
    \/ \E u \in ProfileUsers, language \in Languages : TrackLanguage(u, language)
    \/ \E project \in Projects, language \in Languages, user \in ProfileUsers :
         QueryAnyTranslation(project, language, user)
    \/ \E project \in Projects, language \in Languages :
         QueryNewString(project, language)
    \/ \E project \in Projects, language \in Languages,
          user \in ProfileUsers \cup {AnonymousUser} :
         QueryNewSuggestion(project, language, user)
    \/ \E project \in Projects, language \in Languages, user \in ProfileUsers :
         QueryNewContributor(project, language, user)
    \/ \E project \in Projects, language \in Languages \cup {None},
          user \in ProfileUsers :
         QueryNewComment(project, language, user)
    \/ \E project \in Projects : QueryMergeFailure(project)

(***************************************************************************)
(* set_lang (lines 312-328) and store_user_details (lines 397-407), run by *)
(* request threads that share the database                                 *)
(***************************************************************************)
Threads == {"req1", "req2"}

LoginUsers == {"alice", "bob"}

Names == {"A", "B"}

IdleHandler == [kind |-> "none", user |-> "", pc |-> "idle", profile |-> 0,
                newprofile |-> FALSE, error |-> ""]

NoSession == [django_language |-> "unset", messages |-> 0]

InitLogin ==
    /\ rows = {}
    /\ nextId = 1
    /\ userdb = [u \in LoginUsers |-> [first_name |-> "", last_name |-> ""]]
    /\ handler = [t \in Threads |-> IdleHandler]
    /\ session = [t \in Threads |-> NoSession]
    /\ invocations = 0

\* the user column without unique=True: no INSERT is refused
UniqueViolationNever(table, user) == FALSE

\* user = models.ForeignKey(User, unique=True, ...), line 151: an INSERT of a
\* second row for the same user is refused by the database (IntegrityError)
UniqueViolation(table, user) == \E r \in table : r.user = user

\* rows of the table that .get(user=user) matches
Matching(table, user) == {r \in table : r.user = user}

\* the user_logged_in signal reaches set_lang, lines 313-319
Login(t, user) ==
    /\ handler[t].pc = "idle"
    /\ invocations < MaxInvocations
    /\ invocations' = invocations + 1
    /\ handler' = [handler EXCEPT ![t] = [IdleHandler EXCEPT !.kind = "set_lang",
                                                            !.user = user,
                                                            !.pc = "get"]]
    /\ UNCHANGED <<rows, nextId, userdb, session, nvars, mvars>>

\* the user_registered signal reaches store_user_details, lines 398-405
Registered(t, user, first_name, last_name) ==
    /\ handler[t].pc = "idle"
    /\ invocations < MaxInvocations
    /\ invocations' = invocations + 1
    /\ userdb' = [userdb EXCEPT ![user] = [first_name |-> first_name,
                                           last_name |-> last_name]]
    /\ handler' = [handler EXCEPT ![t] = [IdleHandler EXCEPT !.kind = "store_user_details",
                                                            !.user = user,
                                                            !.pc = "get"]]
    /\ UNCHANGED <<rows, nextId, session, nvars, mvars>>

\* Profile.objects.get_or_create(user=user), lines 322 and 407: the lookup
GetProfile(t) ==
    /\ handler[t].pc = "get"
    /\ LET found == Matching(rows, handler[t].user)
       IN  handler' = [handler EXCEPT ![t] =
               IF found = {} THEN [@ EXCEPT !.pc = "create"]
               ELSE IF Cardinality(found) = 1
               THEN [@ EXCEPT !.profile = (CHOOSE r \in found : TRUE).id,
                              !.newprofile = FALSE, !.pc = "tail"]
               ELSE [@ EXCEPT !.error = "MultipleObjectsReturned", !.pc = "idle"]]
    /\ UNCHANGED <<rows, nextId, userdb, session, invocations, nvars, mvars>>

\* get_or_create: the INSERT made when the lookup found nothing
CreateProfile(t) ==
    /\ handler[t].pc = "create"
    /\ IF UniqueViolation(rows, handler[t].user)
       THEN /\ handler' = [handler EXCEPT ![t].pc = "reget"]
            /\ UNCHANGED <<rows, nextId>>
       ELSE /\ rows' = rows \cup {[id |-> nextId, user |-> handler[t].user,
                                   language |-> ""]}
            /\ nextId' = nextId + 1
            /\ handler' = [handler EXCEPT ![t].profile = nextId,
                                          ![t].newprofile = TRUE,
                                          ![t].pc = "tail"]
    /\ UNCHANGED <<userdb, session, invocations, nvars, mvars>>

\* get_or_create: the second lookup, made after an IntegrityError
RegetProfile(t) ==
    /\ handler[t].pc = "reget"
    /\ LET found == Matching(rows, handler[t].user)
       IN  handler' = [handler EXCEPT ![t] =
               IF Cardinality(found) = 1
               THEN [@ EXCEPT !.profile = (CHOOSE r \in found : TRUE).id,
                              !.newprofile = FALSE, !.pc = "tail"]
               ELSE [@ EXCEPT !.error = "IntegrityError", !.pc = "idle"]]
    /\ UNCHANGED <<rows, nextId, userdb, session, invocations, nvars, mvars>>

\* lines 323-328 of set_lang; store_user_details ends after get_or_create
FinishHandler(t) ==
    /\ handler[t].pc = "tail"
    /\ IF handler[t].kind = "set_lang"
       THEN session' = [session EXCEPT ![t] =
                [django_language |->
                     (CHOOSE r \in rows : r.id = handler[t].profile).language,
                 messages |-> IF handler[t].newprofile THEN @.messages + 1
                                                       ELSE @.messages]]
       ELSE UNCHANGED session
    /\ handler' = [handler EXCEPT ![t].pc = "idle"]
    /\ UNCHANGED <<rows, nextId, userdb, invocations, nvars, mvars>>

NextLogin ==
    \/ \E t \in Threads, user \in LoginUsers : Login(t, user)
    \/ \E t \in Threads, user \in LoginUsers, first_name \in Names, last_name \in Names :
         Registered(t, user, first_name, last_name)
    \/ \E t \in Threads : GetProfile(t)
    \/ \E t \in Threads : CreateProfile(t)
    \/ \E t \in Threads : RegetProfile(t)
    \/ \E t \in Threads : FinishHandler(t)

(***************************************************************************)
(* Specifications                                                          *)
(***************************************************************************)
\* notifications, one call at a time, started under any active locale
Init ==
    /\ \E loc \in {Unset} \cup Locales : NotifyStart(loc)
    /\ InitMatcher
    /\ InitLogin

Next == NextNotify

Spec == Init /\ [][Next]_vars

\* subscription queries over profiles that users edit
InitMatcherSpec == NotifyStart(Unset) /\ InitMatcher /\ InitLogin

SpecMatcher == InitMatcherSpec /\ [][NextMatcher]_vars

\* concurrent logins and registrations
InitLoginSpec == NotifyStart(Unset) /\ InitMatcher /\ InitLogin

SpecLogin == InitLoginSpec /\ [][NextLogin]_vars

(***************************************************************************)
(* Properties                                                              *)
(***************************************************************************)
\* events of one kind, in order
EventsOf(op) == SelectSeq(events, LAMBDA e : e.op = op)

\* the call has left send_notification_email (or never entered it)
Ended == pc = "idle" /\ calls > 0

ContextKeys == {"translation", "current_site", "translation_url", "subject_template"}

FixedHeaders == [k \in {"Auto-Submitted", "X-AutoGenerated", "Precedence", "X-Mailer"} |->
                    CASE k = "Auto-Submitted" -> "auto-generated"
                      [] k = "X-AutoGenerated" -> "yes"
                      [] k = "Precedence" -> "bulk"
                      [] k = "X-Mailer" -> XMailer]

CarriesFixedHeaders(h) ==
    \A k \in DOMAIN FixedHeaders : k \in DOMAIN h /\ h[k] = FixedHeaders[k]

\* C1: a notify call whose subject entity denies access (has_acl false)
\* returns normally and has done nothing: no log line, no activation of a
\* locale, no render, no send, and the active locale is the one of before.
C1_DeniedIsNoOp ==
    gate = "denied" =>
        /\ pc = "idle"
        /\ outcome = [status |-> "returned", error |-> ""]
        /\ events = <<>>
        /\ get_language(locale) = entryLocale

\* a notify method that builds a context was called and the gate denied it
C1_Witness ==
    /\ gate = "denied"
    /\ calls = 2
    /\ "unit" \in DOMAIN supplied.context

\* C2: once a call of send_notification_email has ended, on whatever path,
\* the active locale is the one that was active just before the call, and so,
\* after any sequence of calls, the initial one.
C2_LocaleRestored ==
    pc = "idle" =>
        /\ get_language(locale) = entryLocale
        /\ get_language(locale) = initLocale

\* a call that activated another locale ended with a render error
C2_Witness ==
    /\ pc = "idle"
    /\ outcome = [status |-> "raised", error |-> "render_body"]
    /\ frame.language # initLocale
    /\ Len(EventsOf("activate")) = 1

\* C3: every message handed to the transport, on the direct route and on the
\* "ADMINS" route, carries the four fixed headers with their fixed values.
C3_EveryMessageCarriesFixedHeaders ==
    \A i \in 1..Len(events) :
        events[i].op = "send" => CarriesFixedHeaders(events[i].message.headers)

\* C7: recipient "ADMINS" goes to the administrator broadcast and never to a
\* direct message; any other recipient gets a direct message addressed to
\* exactly that recipient and never a broadcast; in both routes the html body
\* is attached as the alternative of the plain body; a call that returns
\* normally has made such a send.
C7_Routing ==
    /\ \A i \in 1..Len(events) :
          events[i].op = "send" =>
              LET m == events[i].message
              IN  /\ frame.email = "ADMINS" => m.route = "admins"
                  /\ frame.email # "ADMINS" =>
                         m.route = "direct" /\ m.to = <<frame.email>>
                  /\ m.body = frame.body
                  /\ m.alternatives = <<frame.html_body>>
    /\ (Ended /\ gate # "denied" /\ outcome.status = "returned") =>
          Len(EventsOf("send")) = 1

\* a call to "ADMINS" returned normally after its broadcast
C7_Witness ==
    /\ Ended
    /\ frame.email = "ADMINS"
    /\ outcome.status = "returned"
    /\ Len(EventsOf("send")) = 1
    /\ EventsOf("send")[1].message.route = "admins"

\* C8: a failing render or send ends the call with that error delivered to
\* the caller; the three templates are rendered before any send, so a render
\* failure means no send attempt; a transport failure means exactly one
\* attempt; a call that returns normally made exactly one attempt.
C8_FailLoudNoRetry ==
    /\ \A i \in 1..Len(events) :
          events[i].op = "send" =>
              /\ Len(SelectSeq(SubSeq(events, 1, i - 1), LAMBDA e : e.op = "render")) = 3
              /\ \A j \in 1..(i - 1) : events[j].op # "send"
    /\ Ended /\ gate # "denied" =>
          /\ frame.exc # "" => outcome = [status |-> "raised", error |-> frame.exc]
          /\ frame.exc = "" => outcome = [status |-> "returned", error |-> ""]
          /\ frame.exc \in {"render_subject", "render_body", "render_html"} =>
                 Len(EventsOf("send")) = 0
          /\ frame.exc = "send" =>
                 Len(EventsOf("send")) = 1 /\ ~EventsOf("send")[1].ok
          /\ frame.exc = "" =>
                 Len(EventsOf("send")) = 1 /\ EventsOf("send")[1].ok

\* the transport failed and the caller got the error after one attempt
C8_Witness ==
    /\ Ended
    /\ outcome = [status |-> "raised", error |-> "send"]
    /\ Len(EventsOf("send")) = 1
    /\ Len(EventsOf("render")) = 3

\* C10: the context a template is rendered with holds the entries the caller
\* of this call supplied and the four entries injected for this call, and
\* nothing else; the headers of a message hold nothing but headers the caller
\* supplied and the four fixed ones (all of them in a direct message).
C10_NoCarryOver ==
    \A i \in 1..Len(events) :
        /\ events[i].op = "render" =>
              LET c == events[i].context
              IN  /\ DOMAIN c = (DOMAIN supplied.context) \cup ContextKeys
                  /\ \A k \in (DOMAIN supplied.context) \ ContextKeys :
                         c[k] = supplied.context[k]
                  /\ c["translation"] = frame.translation_obj
                  /\ c["current_site"] = SiteDomain
                  /\ c["translation_url"] =
                         <<"http://", SiteDomain>> \o get_absolute_url(frame.translation_obj)
                  /\ c["subject_template"] = subject_template(frame.notification)
        /\ events[i].op = "send" =>
              LET h == events[i].message.headers
              IN  /\ DOMAIN h \subseteq (DOMAIN supplied.headers) \cup DOMAIN FixedHeaders
                  /\ \A k \in (DOMAIN h) \cap DOMAIN FixedHeaders : h[k] = FixedHeaders[k]
                  /\ \A k \in (DOMAIN h) \ DOMAIN FixedHeaders : h[k] = supplied.headers[k]
                  /\ events[i].message.route = "direct" =>
                         DOMAIN h = (DOMAIN supplied.headers) \cup DOMAIN FixedHeaders

\* a second notification is being rendered with the default-argument dicts
\* that an earlier notification about another entity wrote to
C10_Witness ==
    /\ calls = 2
    /\ pc = "render_body"
    /\ frame.ctx = "defctx"
    /\ frame.hdr = "defhdr"
    /\ Len(EventsOf("render")) = 1
    /\ "X-Mailer" \in DOMAIN heap.defhdr
    /\ frame.translation_obj = "t2"

\* the opt-in flag each query is about
FlagOf(name) ==
    CASE name = "subscribed_any_translation" -> "subscribe_any_translation"
      [] name = "subscribed_new_string" -> "subscribe_new_string"
      [] name = "subscribed_new_suggestion" -> "subscribe_new_suggestion"
      [] name = "subscribed_new_contributor" -> "subscribe_new_contributor"
      [] name = "subscribed_new_comment" -> "subscribe_new_comment"
      [] name = "subscribed_merge_failure" -> "subscribe_merge_failure"

Asked == query.name # "none"

\* C4: in the result of each of the six queries there is no profile whose
\* flag for the category is unset and no profile that is not subscribed to
\* the project asked for.
C4_FlagAndProjectRequired ==
    Asked =>
        \A u \in query.result :
            /\ profiles[u][FlagOf(query.name)]
            /\ query.project \in profiles[u].subscriptions

\* a profile subscribed to the project and tracking the language, but with
\* the flag of the category unset, was left out of a result
C4_Witness ==
    /\ Asked
    /\ query.name = "subscribed_new_string"
    /\ \E u \in ProfileUsers :
          /\ u \notin query.result
          /\ ~profiles[u][FlagOf(query.name)]
          /\ profiles[u].subscribe_new_comment
          /\ query.project \in profiles[u].subscriptions
          /\ query.language \in profiles[u].languages

\* C5: the triggering user's profile is not in the result of
\* subscribed_any_translation, subscribed_new_contributor and
\* subscribed_new_comment, nor of subscribed_new_suggestion when that user is
\* authenticated; for an anonymous triggering user subscribed_new_suggestion
\* returns exactly the profiles with the flag set, subscribed to the project
\* and tracking the language.
C5_TriggeringUserExcluded ==
    /\ query.name \in {"subscribed_any_translation", "subscribed_new_contributor",
                       "subscribed_new_comment"} =>
          query.user \notin query.result
    /\ query.name = "subscribed_new_suggestion" =>
          IF is_authenticated(query.user)
          THEN query.user \notin query.result
          ELSE query.result =
                   {u \in ProfileUsers :
                        /\ profiles[u].subscribe_new_suggestion
                        /\ query.project \in profiles[u].subscriptions
                        /\ query.language \in profiles[u].languages}

\* the authenticated author of a suggestion would match the query and is
\* left out of its result
C5_Witness ==
    /\ query.name = "subscribed_new_suggestion"
    /\ query.user \in ProfileUsers
    /\ profiles[query.user].subscribe_new_suggestion
    /\ query.project \in profiles[query.user].subscriptions
    /\ query.language \in profiles[query.user].languages
    /\ query.user \notin query.result

\* C6: subscribed_new_comment with language None returns every profile with
\* the new-comment flag set and subscribed to the project, except the
\* triggering user's, whatever languages it tracks (none included); with a
\* language L it returns those of them that also track L.
C6_NewCommentLanguage ==
    query.name = "subscribed_new_comment" =>
        LET subscribers == {u \in ProfileUsers :
                                /\ profiles[u].subscribe_new_comment
                                /\ query.project \in profiles[u].subscriptions
                                /\ u # query.user}
        IN  IF query.language = None
            THEN query.result = subscribers
            ELSE query.result =
                     {u \in subscribers : query.language \in profiles[u].languages}

\* a source-string comment reached a subscriber that tracks no language
C6_Witness ==
    /\ query.name = "subscribed_new_comment"
    /\ query.language = None
    /\ \E u \in query.result : profiles[u].languages = {}

\* C9: under every interleaving of the login and registration handlers each
\* user has at most one Profile row, every row has one owning user and its
\* own primary key, and a row once created stays as it is.
C9_OneProfilePerUser ==
    /\ [](/\ \A u \in LoginUsers : Cardinality(Matching(rows, u)) <= 1
          /\ \A r \in rows : r.user \in LoginUsers
          /\ \A r1, r2 \in rows : r1.id = r2.id => r1 = r2)
    /\ [][rows \subseteq rows']_vars

\* two first logins of one user raced: the INSERT of the second was refused
\* and the one row of the first is there
C9_Witness ==
    \E t1, t2 \in Threads :
        /\ t1 # t2
        /\ handler[t1].kind = "set_lang"
        /\ handler[t2].kind = "set_lang"
        /\ handler[t1].user = handler[t2].user
        /\ handler[t1].newprofile
        /\ handler[t2].pc = "reget"
        /\ Cardinality(Matching(rows, handler[t2].user)) = 1

====
